---- MODULE Spec2Model ----
(***************************************************************************)
(* BlocklistDownloads (qutebrowser/components/utils/blockutils.py).        *)
(*                                                                         *)
(* The coordinator object is driven by one owner thread, which calls       *)
(* initiate(), and by the download backend, which calls                    *)
(* _on_download_finished(download) for every remote download when that     *)
(* download's `finished` signal is emitted.  The class takes no lock, so   *)
(* the statements of a backend callback interleave freely with those of    *)
(* initiate() and of other callbacks.  Every step below is one statement   *)
(* (or one read / one write of a shared attribute) of the source; the      *)
(* labels are source line numbers.                                         *)
(***************************************************************************)
EXTENDS Integers, Sequences, FiniteSets, TLC

\* Bounds of the model.
MaxUrls == 2          \* longest source list
MaxEntries == 2       \* most entries os.scandir yields for one directory

VARIABLES
    _urls,                            \* the sources (their schemes), fixed at construction
    _in_progress,                     \* list of download ids
    _done_count,
    _finished_registering_downloads,
    _started,
    _finished,
    pc,                               \* owner thread: position in initiate()
    url_i,                            \* owner thread: index of `for url in self._urls`
    entry_i,                          \* owner thread: index of `for entry in os.scandir`
    downloads,                        \* every download object created so far
    all_calls,                        \* invocations of _user_cb_all, in order
    single_calls,                     \* invocations of _user_cb_single, in order
    errors,                           \* number of message.error reports
    fs,                               \* what the filesystem has answered so far
    exc                               \* the ValueError the last step raised, if any

coord == <<_in_progress, _done_count, _finished_registering_downloads,
           _started, _finished>>
owner == <<pc, url_i, entry_i>>
hist  == <<all_calls, single_calls, errors, fs>>
vars  == <<_urls, coord, owner, downloads, hist, exc>>

----------------------------------------------------------------------------
\* url.scheme() of a source.
Schemes == {"file", "http"}

\* A directory entry: a readable file, a file that open() rejects, a subdirectory.
EntryKinds == {"file", "unreadable", "subdir"}

SeqsUpTo(S, n) == UNION {[1..k -> S] : k \in 0..n}

\* The two ways a user callback can end.
Outcomes == {"return", "raise"}

\* list.remove(x): drop the first occurrence of x.
RECURSIVE ListRemove(_, _)
ListRemove(s, x) ==
    IF s = <<>> THEN <<>>
    ELSE IF Head(s) = x THEN Tail(s)
    ELSE <<Head(s)>> \o ListRemove(Tail(s), x)

InList(s, x) == \E k \in 1..Len(s) : s[k] = x

\* A FakeDownload (lines 33-40) and a TempDownload handed out by download_temp.
\* `ahead` holds, while the download waits between line 148 and line 155, the
\* downloads that passed line 148 before it and still wait for line 155.
FakeDownload == [remote |-> FALSE, successful |-> TRUE, fileobj |-> "open",
                 pc |-> "L148", tmp |-> 0, ahead |-> {}]
TempDownload == [remote |-> TRUE, successful |-> FALSE, fileobj |-> "none",
                 pc |-> "downloading", tmp |-> 0, ahead |-> {}]

----------------------------------------------------------------------------
Init ==
    /\ _urls \in SeqsUpTo(Schemes, MaxUrls)
    /\ _in_progress = <<>>
    /\ _done_count = 0
    /\ _finished_registering_downloads = FALSE
    /\ _started = FALSE
    /\ _finished = FALSE
    /\ pc = "init"
    /\ url_i = 0
    /\ entry_i = 0
    /\ downloads = <<>>
    /\ all_calls = <<>>
    /\ single_calls = <<>>
    /\ errors = 0
    /\ fs = [plain |-> 0, files |-> 0, subdirs |-> 0, opened |-> 0, failed |-> 0]
    /\ exc = "none"

----------------------------------------------------------------------------
\* Owner thread: initiate() and what it calls.

\* The next iteration of the loop the owner is in (the scandir loop of line 113
\* when entry_i > 0, the url loop of line 91 otherwise).
NextIteration ==
    IF entry_i > 0
    THEN pc' = "L113" /\ entry_i' = entry_i + 1 /\ url_i' = url_i
    ELSE pc' = "L91" /\ entry_i' = 0 /\ url_i' = url_i + 1

\* initiate() as it would be if line 82 tested _finished instead of _started.
initiate_L82_tests_finished ==
    /\ pc \in {"init", "returned", "raised"}
    /\ IF _finished
       THEN /\ exc' = "initiate"
            /\ UNCHANGED <<coord, owner>>
       ELSE /\ exc' = "none"
            /\ _started' = TRUE
            /\ pc' = IF Len(_urls) = 0 THEN "L87" ELSE "L91"
            /\ url_i' = 1
            /\ UNCHANGED <<_in_progress, _done_count,
                           _finished_registering_downloads, _finished, entry_i>>
    /\ UNCHANGED <<_urls, downloads, hist>>

\* Lines 82-86.  The owner may call initiate() whenever it is not inside it:
\* on the fresh object, or again after an earlier call has returned or raised.
initiate_L82 ==
    /\ pc \in {"init", "returned", "raised"}
    /\ IF _started
       THEN /\ exc' = "initiate"
            /\ UNCHANGED <<coord, owner>>
       ELSE /\ exc' = "none"
            /\ _started' = TRUE
            /\ pc' = IF Len(_urls) = 0 THEN "L87" ELSE "L91"
            /\ url_i' = 1
            /\ UNCHANGED <<_in_progress, _done_count,
                           _finished_registering_downloads, _finished, entry_i>>
    /\ UNCHANGED <<_urls, downloads, hist>>

\* Lines 87-89 as they would be without line 88.
initiate_L87_no_finished(outs) ==
    /\ pc = "L87"
    /\ all_calls' = Append(all_calls, [count |-> _done_count, site |-> "L87"])
    /\ \E out \in outs : pc' = IF out = "return" THEN "returned" ELSE "raised"
    /\ exc' = "none"
    /\ UNCHANGED <<_urls, coord, url_i, entry_i, downloads, single_calls,
                   errors, fs>>

\* Lines 87-89: the empty source list.
initiate_L87(outs) ==
    /\ pc = "L87"
    /\ all_calls' = Append(all_calls, [count |-> _done_count, site |-> "L87"])
    /\ \E out \in outs :
         IF out = "return"
         THEN _finished' = TRUE /\ pc' = "returned"
         ELSE _finished' = _finished /\ pc' = "raised"
    /\ exc' = "none"
    /\ UNCHANGED <<_urls, _in_progress, _done_count,
                   _finished_registering_downloads, _started, url_i, entry_i,
                   downloads, single_calls, errors, fs>>

\* Lines 125-139 as they would be without the `except OSError` clause: the
\* error of open() leaves initiate() and nothing is reported.
_import_local_uncaught(seen) ==
    \E ok \in BOOLEAN :
        IF ok
        THEN /\ fs' = [seen EXCEPT !.opened = @ + 1]
             /\ downloads' = Append(downloads, FakeDownload)
             /\ _in_progress' = Append(_in_progress, Len(downloads) + 1)
             /\ pc' = "L140"
             /\ UNCHANGED <<url_i, entry_i, errors>>
        ELSE /\ fs' = [seen EXCEPT !.failed = @ + 1]
             /\ pc' = "raised"
             /\ UNCHANGED <<url_i, entry_i, errors, downloads, _in_progress>>

\* Lines 125-139: open the file; report and skip it, or append a FakeDownload
\* (line 140 then runs _on_download_finished on the owner thread).
\* `seen` is fs after the url (a plain file) or the directory listing (a file
\* entry) that names this file has been counted.
_import_local(seen) ==
    \E ok \in BOOLEAN :
        IF ok
        THEN /\ fs' = [seen EXCEPT !.opened = @ + 1]
             /\ downloads' = Append(downloads, FakeDownload)
             /\ _in_progress' = Append(_in_progress, Len(downloads) + 1)
             /\ pc' = "L140"
             /\ UNCHANGED <<url_i, entry_i, errors>>
        ELSE /\ fs' = [seen EXCEPT !.failed = @ + 1]
             /\ errors' = errors + 1
             /\ NextIteration
             /\ UNCHANGED <<downloads, _in_progress>>

\* Lines 102-123.
_download_blocklist_url(url) ==
    IF url = "file"
    THEN \E isdir \in BOOLEAN :
            IF isdir
            THEN /\ pc' = "L113"
                 /\ entry_i' = 1
                 /\ UNCHANGED <<url_i, downloads, _in_progress, errors, fs>>
            ELSE _import_local([fs EXCEPT !.plain = @ + 1])
    ELSE /\ downloads' = Append(downloads, TempDownload)
         /\ _in_progress' = Append(_in_progress, Len(downloads) + 1)
         /\ NextIteration
         /\ UNCHANGED <<errors, fs>>

\* Lines 91-92: one iteration of `for url in self._urls`.
initiate_L91 ==
    /\ pc = "L91"
    /\ url_i <= Len(_urls)
    /\ _download_blocklist_url(_urls[url_i])
    /\ exc' = "none"
    /\ UNCHANGED <<_urls, _done_count, _finished_registering_downloads,
                   _started, _finished, all_calls, single_calls>>

\* Lines 113-115 as they would be without the entry.is_file() test of line
\* 114: a subdirectory is handed to _import_local like a file.
initiate_L113_no_is_file ==
    /\ pc = "L113"
    /\ \/ /\ pc' = "L91"
          /\ url_i' = url_i + 1
          /\ entry_i' = 0
          /\ UNCHANGED <<downloads, _in_progress, errors, fs>>
       \/ /\ entry_i <= MaxEntries
          /\ \E entry \in EntryKinds :
                IF entry = "subdir"
                THEN _import_local([fs EXCEPT !.subdirs = @ + 1])
                ELSE _import_local([fs EXCEPT !.files = @ + 1])
    /\ exc' = "none"
    /\ UNCHANGED <<_urls, _done_count, _finished_registering_downloads,
                   _started, _finished, all_calls, single_calls>>

\* Lines 113-115: one iteration of `for entry in os.scandir(filename)`; the
\* listing ends, or yields one more entry of some kind.
initiate_L113 ==
    /\ pc = "L113"
    /\ \/ /\ pc' = "L91"
          /\ url_i' = url_i + 1
          /\ entry_i' = 0
          /\ UNCHANGED <<downloads, _in_progress, errors, fs>>
       \/ /\ entry_i <= MaxEntries
          /\ \E entry \in EntryKinds :
                IF entry = "subdir"
                THEN /\ fs' = [fs EXCEPT !.subdirs = @ + 1]
                     /\ entry_i' = entry_i + 1
                     /\ UNCHANGED <<pc, url_i, downloads, _in_progress, errors>>
                ELSE _import_local([fs EXCEPT !.files = @ + 1])
    /\ exc' = "none"
    /\ UNCHANGED <<_urls, _done_count, _finished_registering_downloads,
                   _started, _finished, all_calls, single_calls>>

\* Line 93, reached when the url loop is exhausted.
initiate_L93 ==
    /\ pc = "L91"
    /\ url_i > Len(_urls)
    /\ _finished_registering_downloads' = TRUE
    /\ pc' = "L95"
    /\ exc' = "none"
    /\ UNCHANGED <<_urls, _in_progress, _done_count, _started, _finished,
                   url_i, entry_i, downloads, hist>>

\* Line 95 as it would be if initiate() returned without the tail check.
initiate_L95_no_check ==
    /\ pc = "L95"
    /\ pc' = "returned"
    /\ exc' = "none"
    /\ UNCHANGED <<_urls, coord, url_i, entry_i, downloads, hist>>

\* Line 95 as it would be if the tail fired without testing _in_progress.
initiate_L95_always ==
    /\ pc = "L95"
    /\ pc' = "L99"
    /\ exc' = "none"
    /\ UNCHANGED <<_urls, coord, url_i, entry_i, downloads, hist>>

\* Line 95.
initiate_L95 ==
    /\ pc = "L95"
    /\ pc' = IF _in_progress = <<>> THEN "L99" ELSE "returned"
    /\ exc' = "none"
    /\ UNCHANGED <<_urls, coord, url_i, entry_i, downloads, hist>>

\* Lines 99-100.
initiate_L99(outs) ==
    /\ pc = "L99"
    /\ _finished' = TRUE
    /\ all_calls' = Append(all_calls, [count |-> _done_count, site |-> "L100"])
    /\ \E out \in outs : pc' = IF out = "return" THEN "returned" ELSE "raised"
    /\ exc' = "none"
    /\ UNCHANGED <<_urls, _in_progress, _done_count,
                   _finished_registering_downloads, _started, url_i, entry_i,
                   downloads, single_calls, errors, fs>>

----------------------------------------------------------------------------
\* _on_download_finished(download), lines 142-160.  A FakeDownload is resolved
\* by the owner thread (called from line 140), a remote download by the thread
\* that emits its `finished` signal.

\* The ids of the download objects created so far.
Ids == 1..Len(downloads)

\* The downloads that have passed line 148 as successful and whose per-item
\* callback has not been entered yet.
Waiting == {e \in Ids : downloads[e].pc \in {"L150", "L150w", "L155"}}

\* The thread of download d may take a step of _on_download_finished.
Running(d) ==
    /\ d \in Ids
    /\ downloads[d].remote \/ pc = "L140"

\* Leave as it would be if _import_local caught what line 140 raises: the
\* owner's loop goes on after a raising _on_download_finished.
Leave_swallows(d, how) ==
    IF downloads[d].remote
    THEN UNCHANGED owner
    ELSE NextIteration

\* Where control goes when _on_download_finished(d) ends with `how`: back into
\* initiate()'s loops for a FakeDownload, nowhere for a backend callback.
Leave(d, how) ==
    IF downloads[d].remote
    THEN UNCHANGED owner
    ELSE IF how = "raise"
         THEN pc' = "raised" /\ UNCHANGED <<url_i, entry_i>>
         ELSE NextIteration

\* Lines 148-149 as they would be if the check of line 158 stood inside the
\* `if download.successful:` block: a failed download returns right away.
on_download_finished_L148_failed_returns(d) ==
    /\ Running(d)
    /\ downloads[d].pc \in {"downloading", "L148"}
    /\ \E ok \in (IF downloads[d].remote THEN BOOLEAN ELSE {TRUE}) :
         IF InList(_in_progress, d)
         THEN /\ _in_progress' = ListRemove(_in_progress, d)
              /\ downloads' = [downloads EXCEPT
                     ![d].successful = ok,
                     ![d].fileobj = IF ok THEN "open" ELSE "none",
                     ![d].ahead = IF ok THEN Waiting ELSE {},
                     ![d].pc = IF ok THEN "L150" ELSE "done"]
              /\ exc' = "none"
              /\ UNCHANGED owner
         ELSE /\ downloads' = [downloads EXCEPT ![d].pc = "raised"]
              /\ exc' = "remove"
              /\ Leave(d, "raise")
              /\ UNCHANGED _in_progress
    /\ UNCHANGED <<_urls, _done_count, _finished_registering_downloads,
                   _started, _finished, hist>>

\* The backend emits `finished` (connected at lines 121-123), or line 140 calls;
\* line 148 removes the download, line 149 tests download.successful.
on_download_finished_L148(d) ==
    /\ Running(d)
    /\ downloads[d].pc \in {"downloading", "L148"}
    /\ \E ok \in (IF downloads[d].remote THEN BOOLEAN ELSE {TRUE}) :
         IF InList(_in_progress, d)
         THEN /\ _in_progress' = ListRemove(_in_progress, d)
              /\ downloads' = [downloads EXCEPT
                     ![d].successful = ok,
                     ![d].fileobj = IF ok THEN "open" ELSE "none",
                     ![d].ahead = IF ok THEN Waiting ELSE {},
                     ![d].pc = IF ok THEN "L150" ELSE "L158"]
              /\ exc' = "none"
              /\ UNCHANGED owner
         ELSE /\ downloads' = [downloads EXCEPT ![d].pc = "raised"]
              /\ exc' = "remove"
              /\ Leave(d, "raise")
              /\ UNCHANGED _in_progress
    /\ UNCHANGED <<_urls, _done_count, _finished_registering_downloads,
                   _started, _finished, hist>>

\* Line 150 as it would be if it read `self._done_count = 1`: the old value
\* is not read.
on_download_finished_L150_assigns(d) ==
    /\ Running(d)
    /\ downloads[d].pc = "L150"
    /\ downloads' = [downloads EXCEPT ![d].tmp = 0, ![d].pc = "L150w"]
    /\ exc' = "none"
    /\ UNCHANGED <<_urls, coord, owner, hist>>

\* Line 150, the read of self._done_count.
on_download_finished_L150(d) ==
    /\ Running(d)
    /\ downloads[d].pc = "L150"
    /\ downloads' = [downloads EXCEPT ![d].tmp = _done_count, ![d].pc = "L150w"]
    /\ exc' = "none"
    /\ UNCHANGED <<_urls, coord, owner, hist>>

\* Line 150 as it would be if the counter were stored back unchanged.
on_download_finished_L150w_no_increment(d) ==
    /\ Running(d)
    /\ downloads[d].pc = "L150w"
    /\ _done_count' = downloads[d].tmp
    /\ downloads' = [downloads EXCEPT ![d].tmp = 0, ![d].pc = "L155"]
    /\ exc' = "none"
    /\ UNCHANGED <<_urls, _in_progress, _finished_registering_downloads,
                   _started, _finished, owner, hist>>

\* Line 150, the write of self._done_count.
on_download_finished_L150w(d) ==
    /\ Running(d)
    /\ downloads[d].pc = "L150w"
    /\ _done_count' = downloads[d].tmp + 1
    /\ downloads' = [downloads EXCEPT ![d].tmp = 0, ![d].pc = "L155"]
    /\ exc' = "none"
    /\ UNCHANGED <<_urls, _in_progress, _finished_registering_downloads,
                   _started, _finished, owner, hist>>

\* Line 155: the user callback is entered.
on_download_finished_L155(d) ==
    /\ Running(d)
    /\ downloads[d].pc = "L155"
    /\ single_calls' = Append(single_calls, d)
    /\ downloads' = [e \in Ids |->
            IF e = d
            THEN [downloads[e] EXCEPT !.pc = "cb"]
            ELSE [downloads[e] EXCEPT !.ahead = @ \ {d}]]
    /\ exc' = "none"
    /\ UNCHANGED <<_urls, coord, owner, all_calls, errors, fs>>

\* Lines 155-157: the user callback returns or raises; the finally clause
\* closes the file object; an exception leaves _on_download_finished.
on_download_finished_L157(d, outs) ==
    /\ Running(d)
    /\ downloads[d].pc = "cb"
    /\ \E out \in outs :
         /\ downloads' = [downloads EXCEPT
                ![d].fileobj = "closed",
                ![d].pc = IF out = "return" THEN "L158" ELSE "raised"]
         /\ IF out = "return" THEN UNCHANGED owner ELSE Leave(d, "raise")
    /\ exc' = "none"
    /\ UNCHANGED <<_urls, coord, hist>>

\* Line 158, the read of self._in_progress.
on_download_finished_L158(d) ==
    /\ Running(d)
    /\ downloads[d].pc = "L158"
    /\ IF _in_progress = <<>>
       THEN /\ downloads' = [downloads EXCEPT ![d].pc = "L158f"]
            /\ UNCHANGED owner
       ELSE /\ downloads' = [downloads EXCEPT ![d].pc = "done"]
            /\ Leave(d, "return")
    /\ exc' = "none"
    /\ UNCHANGED <<_urls, coord, hist>>

\* Line 158, the read of self._finished_registering_downloads.
on_download_finished_L158f(d) ==
    /\ Running(d)
    /\ downloads[d].pc = "L158f"
    /\ IF _finished_registering_downloads
       THEN /\ downloads' = [downloads EXCEPT ![d].pc = "L159"]
            /\ UNCHANGED owner
       ELSE /\ downloads' = [downloads EXCEPT ![d].pc = "done"]
            /\ Leave(d, "return")
    /\ exc' = "none"
    /\ UNCHANGED <<_urls, coord, hist>>

\* Lines 159-160.
on_download_finished_L159(d, outs) ==
    /\ Running(d)
    /\ downloads[d].pc = "L159"
    /\ _finished' = TRUE
    /\ all_calls' = Append(all_calls, [count |-> _done_count, site |-> "L160"])
    /\ \E out \in outs :
         /\ downloads' = [downloads EXCEPT
                ![d].pc = IF out = "return" THEN "done" ELSE "raised"]
         /\ Leave(d, out)
    /\ exc' = "none"
    /\ UNCHANGED <<_urls, _in_progress, _done_count,
                   _finished_registering_downloads, _started, single_calls,
                   errors, fs>>

\* A repeated `finished` signal as it would be handled if the remove of line
\* 148 stood after the increment of line 150: the counter is bumped before
\* list.remove raises.
on_download_finished_again_counts_first(d) ==
    /\ d \in Ids
    /\ downloads[d].remote
    /\ downloads[d].pc \notin {"downloading", "L148"}
    /\ ~InList(_in_progress, d)
    /\ exc' = "remove"
    /\ _done_count' = _done_count + 1
    /\ UNCHANGED <<_urls, _in_progress, _finished_registering_downloads,
                   _started, _finished, owner, downloads, hist>>

\* The backend emits `finished` again for a remote download that an earlier
\* signal has already removed at line 148: list.remove raises ValueError.
on_download_finished_again(d) ==
    /\ d \in Ids
    /\ downloads[d].remote
    /\ downloads[d].pc \notin {"downloading", "L148"}
    /\ ~InList(_in_progress, d)
    /\ exc' = "remove"
    /\ UNCHANGED <<_urls, coord, owner, downloads, hist>>

----------------------------------------------------------------------------

Next ==
    \/ initiate_L82
    \/ initiate_L87(Outcomes)
    \/ initiate_L91
    \/ initiate_L113
    \/ initiate_L93
    \/ initiate_L95
    \/ initiate_L99(Outcomes)
    \/ \E d \in Ids : on_download_finished_L148(d)
    \/ \E d \in Ids : on_download_finished_L150(d)
    \/ \E d \in Ids : on_download_finished_L150w(d)
    \/ \E d \in Ids : on_download_finished_L155(d)
    \/ \E d \in Ids : on_download_finished_L157(d, Outcomes)
    \/ \E d \in Ids : on_download_finished_L158(d)
    \/ \E d \in Ids : on_download_finished_L158f(d)
    \/ \E d \in Ids : on_download_finished_L159(d, Outcomes)
    \/ \E d \in Ids : on_download_finished_again(d)

Spec == Init /\ [][Next]_vars

----------------------------------------------------------------------------
\* The same program when no user callback raises and the backend emits every
\* `finished` signal once; every thread that can take a step eventually does.
NextLive ==
    \/ initiate_L82
    \/ initiate_L87({"return"})
    \/ initiate_L91
    \/ initiate_L113
    \/ initiate_L93
    \/ initiate_L95
    \/ initiate_L99({"return"})
    \/ \E d \in Ids : on_download_finished_L148(d)
    \/ \E d \in Ids : on_download_finished_L150(d)
    \/ \E d \in Ids : on_download_finished_L150w(d)
    \/ \E d \in Ids : on_download_finished_L155(d)
    \/ \E d \in Ids : on_download_finished_L157(d, {"return"})
    \/ \E d \in Ids : on_download_finished_L158(d)
    \/ \E d \in Ids : on_download_finished_L158f(d)
    \/ \E d \in Ids : on_download_finished_L159(d, {"return"})

LiveSpec == Init /\ [][NextLive]_vars /\ WF_vars(NextLive)

----------------------------------------------------------------------------
\* The same program under serialized execution: initiate() and the backend
\* callbacks are all run by one thread (the owner's event loop), so a call
\* starts only when no other call is under way and runs to its end.

\* The owner thread is inside initiate().
OwnerInside == pc \notin {"init", "returned", "raised"}

\* The backend callback of the remote download d is under way.
HandlerInside(d) ==
    /\ downloads[d].remote
    /\ downloads[d].pc \notin {"downloading", "done", "raised"}

\* No call is under way.
Idle == ~OwnerInside /\ \A d \in Ids : ~HandlerInside(d)

\* initiate() may start or go on: no backend callback is under way.
OwnerTurn == \A d \in Ids : ~HandlerInside(d)

\* _on_download_finished(d) may start or go on: no other backend callback is
\* under way and, for a remote download, initiate() is not either.
HandlerTurn(d) ==
    /\ \A e \in Ids \ {d} : ~HandlerInside(e)
    /\ downloads[d].remote => ~OwnerInside

SerialNext ==
    \/ OwnerTurn /\ initiate_L82
    \/ OwnerTurn /\ initiate_L87(Outcomes)
    \/ OwnerTurn /\ initiate_L91
    \/ OwnerTurn /\ initiate_L113
    \/ OwnerTurn /\ initiate_L93
    \/ OwnerTurn /\ initiate_L95
    \/ OwnerTurn /\ initiate_L99(Outcomes)
    \/ \E d \in Ids : HandlerTurn(d) /\ on_download_finished_L148(d)
    \/ \E d \in Ids : HandlerTurn(d) /\ on_download_finished_L150(d)
    \/ \E d \in Ids : HandlerTurn(d) /\ on_download_finished_L150w(d)
    \/ \E d \in Ids : HandlerTurn(d) /\ on_download_finished_L155(d)
    \/ \E d \in Ids : HandlerTurn(d) /\ on_download_finished_L157(d, Outcomes)
    \/ \E d \in Ids : HandlerTurn(d) /\ on_download_finished_L158(d)
    \/ \E d \in Ids : HandlerTurn(d) /\ on_download_finished_L158f(d)
    \/ \E d \in Ids : HandlerTurn(d) /\ on_download_finished_L159(d, Outcomes)
    \/ \E d \in Ids : Idle /\ on_download_finished_again(d)

SerialSpec == Init /\ [][SerialNext]_vars

----------------------------------------------------------------------------
\* Vocabulary of the properties.

\* _user_cb_all has been invoked.
Fired == Len(all_calls) > 0

\* This step invokes _user_cb_all.
Fires == Len(all_calls') > Len(all_calls)

\* This step invokes _user_cb_single.
Delivers == Len(single_calls') > Len(single_calls)

\* The source list holds only file:// urls, only remote urls, or both kinds.
HasLocal == \E i \in 1..Len(_urls) : _urls[i] = "file"
HasRemote == \E i \in 1..Len(_urls) : _urls[i] = "http"
OnlyLocal == Len(_urls) > 0 /\ ~HasRemote

\* Every source has been dispatched.
AllDispatched == _started /\ url_i > Len(_urls)

\* initiate() has returned and every _on_download_finished has returned.
Quiescent ==
    /\ pc = "returned"
    /\ \A d \in Ids : downloads[d].pc = "done"

\* initiate() has ended and so has every _on_download_finished, by return or raise.
AllResolved ==
    /\ pc \in {"returned", "raised"}
    /\ \A d \in Ids : downloads[d].pc \in {"done", "raised"}

\* The downloads that were resolved as successful.
Successful == {d \in Ids : downloads[d].successful}

\* Download d is between its removal from _in_progress and the return of its
\* per-item callback.
CallbackPending(d) == downloads[d].pc \in {"L150", "L150w", "L155", "cb"}

----------------------------------------------------------------------------
\* C1: the all-done callback is never invoked a second time on one
\* coordinator, whatever the interleaving of backend callbacks with initiate().
C1_AllDoneAtMostOnce == Len(all_calls) <= 1

\* C2: every invocation of the all-done callback happens with the in-flight
\* list empty and _finished_registering_downloads true.
C2_FiresOnlyWhenEmptyAndRegistered ==
    [][Fires => (_in_progress = <<>> /\ _finished_registering_downloads)]_vars

\* C3: once initiate() has been called, if every completion is delivered once
\* and no callback raises, the all-done callback eventually fires, and by then
\* every source has been dispatched and every operation has left the in-flight
\* list.
C3_EventuallyAllDone ==
    _started ~> (Fired /\ AllDispatched /\ _in_progress = <<>>)

C3_Witness ==
    /\ HasLocal /\ HasRemote
    /\ Quiescent
    /\ Fired
    /\ \E d \in Ids : downloads[d].remote /\ ~downloads[d].successful

\* C4: the all-done callback is invoked only when no successful operation is
\* still waiting for its per-item callback to return, and once it has been
\* invoked neither callback is invoked again.
C4_AllDoneIsLast ==
    [][/\ Fires => \A d \in Ids : ~CallbackPending(d)
       /\ Fired => ~Fires /\ ~Delivers]_vars

\* C5: for a non-empty list of file:// urls only, the all-done callback is
\* invoked exactly when every opened file has had its per-item callback
\* called and returned, one call per opened file, with the number of opened
\* files as its argument; and it has been invoked once when initiate() returns.
C5_LocalOnly ==
    /\ [](OnlyLocal /\ pc = "returned" =>
            /\ all_calls = <<[count |-> fs.opened, site |-> "L100"]>>
            /\ Len(single_calls) = fs.opened)
    /\ [][OnlyLocal /\ Fires =>
            /\ all_calls' = <<[count |-> fs.opened, site |-> "L100"]>>
            /\ fs' = fs
            /\ Len(single_calls) = fs.opened
            /\ \A d \in Ids : single_calls[d] = d
            /\ \A d \in Ids : downloads[d].pc = "done"
                                /\ downloads[d].fileobj = "closed"]_vars

C5_Witness ==
    /\ OnlyLocal
    /\ pc = "returned"
    /\ fs.opened = 2
    /\ fs.failed > 0
    /\ all_calls = <<[count |-> 2, site |-> "L100"]>>

\* C6: with local and remote sources mixed, the all-done callback is not
\* invoked before every source has been dispatched, is invoked at most once,
\* and, when everything has returned, has been invoked once with the number of
\* opened local files plus the number of successful remote downloads.
C6_MixedExactlyOnce ==
    HasLocal /\ HasRemote =>
        /\ Fired => AllDispatched
        /\ Len(all_calls) <= 1
        /\ Quiescent =>
             /\ Len(all_calls) = 1
             /\ all_calls[1].count = Cardinality(Successful)

\* C7: no increment of the success counter is lost: when everything has been
\* resolved the counter equals the number of successful operations.
C7_NoLostIncrement ==
    AllResolved => _done_count = Cardinality(Successful)

\* A step that changes nothing of the coordinator, its downloads or its callbacks.
NothingButRaise == UNCHANGED <<_urls, coord, owner, downloads, hist>>

\* The owner thread is not inside initiate(), having called it before.
OwnerOutside == pc \in {"returned", "raised"}

\* A step that does not enter initiate() again and, if it is a call of
\* initiate(), only raises.
FurtherCallOnlyRaises == pc' = pc /\ (exc' = "initiate" => NothingButRaise)

\* C8: after a call of initiate() has ended, in whatever way, _started is set,
\* so a further call raises; the further call changes nothing but raising.
C8_SecondInitiateFails ==
    /\ [](OwnerOutside => _started)
    /\ [][OwnerOutside => FurtherCallOnlyRaises]_vars

C8_Witness ==
    /\ exc = "initiate"
    /\ pc = "returned"
    /\ _in_progress # <<>>
    /\ ~_finished

\* C9: for an empty source list, a returned initiate() has invoked the
\* all-done callback once with 0, no per-item callback, created no download
\* and set _finished; and the all-done callback is never invoked twice.
C9_EmptyList ==
    _urls = <<>> =>
        /\ Len(all_calls) <= 1
        /\ single_calls = <<>>
        /\ downloads = <<>>
        /\ _in_progress = <<>>
        /\ Fired => all_calls[1] = [count |-> 0, site |-> "L87"]
        /\ pc = "returned" => Fired /\ _finished

C9_Witness ==
    /\ _urls = <<>>
    /\ pc = "returned"
    /\ all_calls = <<[count |-> 0, site |-> "L87"]>>

\* C10 as stated: for a non-empty source list the all-done callback is not
\* invoked while initiate() is still running.
C10_NeverDuringInitiate ==
    [][Len(_urls) > 0 /\ Fires => pc \in {"returned", "raised"}]_vars

\* C10 as amended: the owner thread invokes the all-done callback inside
\* initiate() in two places only: at line 87 for an empty list, and for a
\* non-empty list at line 100, after every source has been dispatched and with
\* the in-flight list empty; never from the inline resolution of a local file.
C10_SyncOnlyAtHeadOrTail ==
    [][Fires /\ pc' # pc =>
         IF _urls = <<>>
         THEN all_calls'[Len(all_calls')].site = "L87"
         ELSE /\ all_calls'[Len(all_calls')].site = "L100"
              /\ AllDispatched
              /\ _finished_registering_downloads
              /\ _in_progress = <<>>]_vars

C10_Witness ==
    /\ Len(_urls) > 0
    /\ pc = "returned"
    /\ Fired
    /\ all_calls[1].site = "L100"
    /\ single_calls # <<>>

\* This step is an open() that fails.
OpenFails == fs'.failed > fs.failed

\* C11: every local file that cannot be opened is reported once; the failing
\* open adds no download, leaves the in-flight list and the counter alone,
\* invokes no callback and leaves the owner in its loop; the counter never
\* counts more than the successful operations; and a returned initiate() on a
\* list of file:// urls has fired the all-done callback once with the number
\* of opened files, which is 0 when every file was unopenable.
C11_UnopenableSkipped ==
    /\ [](errors = fs.failed)
    /\ [](_done_count <= Cardinality(Successful))
    /\ [](Len(downloads) = fs.opened + Cardinality({d \in Ids : downloads[d].remote}))
    /\ [][OpenFails =>
            /\ errors' = errors + 1
            /\ fs'.failed = fs.failed + 1
            /\ UNCHANGED <<coord, downloads, all_calls, single_calls>>
            /\ pc' \in {"L91", "L113"}]_vars
    /\ [](OnlyLocal /\ pc = "returned" /\ fs.failed > 0 =>
            /\ all_calls = <<[count |-> fs.opened, site |-> "L100"]>>
            /\ Len(single_calls) = fs.opened
            /\ _done_count = fs.opened)

C11_Witness ==
    /\ OnlyLocal
    /\ pc = "returned"
    /\ fs.failed = 2
    /\ fs.opened = 0
    /\ errors = 2
    /\ _in_progress = <<>>
    /\ single_calls = <<>>
    /\ all_calls = <<[count |-> 0, site |-> "L100"]>>

\* The remote download d was resolved as failed.
IsFailed(d) ==
    /\ downloads[d].remote
    /\ downloads[d].pc # "downloading"
    /\ ~downloads[d].successful

\* The remote downloads that were resolved as failed.
Failed == {d \in Ids : IsFailed(d)}

\* This step resolves download d as failed (lines 148-149).
ResolvesFailed(d) ==
    /\ downloads[d].pc = "downloading"
    /\ downloads'[d].pc # "downloading"
    /\ ~downloads'[d].successful

\* This step moves the failed download d on from position `at`.
FailedLeaves(d, at) ==
    /\ downloads[d].pc = at
    /\ downloads'[d].pc # at
    /\ IsFailed(d)

\* C12: resolving a failed download removes it from the in-flight list, leaves
\* the counter alone and invokes no callback at that point; a failed download
\* never gets a per-item callback; and its resolution goes on to the check of
\* line 158, which invokes the all-done callback when it reads the in-flight
\* list as empty and the registration flag as set, and returns otherwise.
C12_FailedFetch ==
    /\ [](\A d \in Failed :
            /\ ~InList(_in_progress, d)
            /\ ~InList(single_calls, d)
            /\ downloads[d].fileobj = "none"
            /\ downloads[d].pc \in {"L158", "L158f", "L159", "done", "raised"})
    /\ [][\A d \in Ids :
            /\ ResolvesFailed(d) =>
                 /\ InList(_in_progress, d)
                 /\ _in_progress' = ListRemove(_in_progress, d)
                 /\ downloads'[d].pc = "L158"
                 /\ UNCHANGED <<_done_count, single_calls, all_calls>>
            /\ FailedLeaves(d, "L158") =>
                 downloads'[d].pc = IF _in_progress = <<>> THEN "L158f" ELSE "done"
            /\ FailedLeaves(d, "L158f") =>
                 downloads'[d].pc =
                     IF _finished_registering_downloads THEN "L159" ELSE "done"
            /\ FailedLeaves(d, "L159") =>
                 /\ all_calls' = Append(all_calls,
                                        [count |-> _done_count, site |-> "L160"])
                 /\ UNCHANGED <<_done_count, single_calls>>]_vars

C12_Witness ==
    /\ Len(downloads) = 1
    /\ 1 \in Failed
    /\ downloads[1].pc = "done"
    /\ pc = "returned"
    /\ _in_progress = <<>>
    /\ _done_count = 0
    /\ single_calls = <<>>
    /\ all_calls = <<[count |-> 0, site |-> "L160"]>>

\* Download d's file object has been handed to the per-item callback.
Handed(d) == InList(single_calls, d)

\* _on_download_finished(d) is at or past the check of line 158, or has ended.
PastCallback(d) == downloads[d].pc \in {"L158", "L158f", "L159", "done", "raised"}

\* C13: a file object handed to the per-item callback is closed when the
\* callback has ended, by return or by raise, before line 158 runs; a raise of
\* the callback ends _on_download_finished with that exception; and no file
\* object handed to a per-item callback is still open when the all-done
\* callback is invoked.
C13_StreamsClosed ==
    /\ [](\A d \in Ids : Handed(d) /\ PastCallback(d) =>
                              downloads[d].fileobj = "closed")
    /\ [][\A d \in Ids : downloads[d].pc = "cb" /\ downloads'[d].pc # "cb" =>
            /\ downloads'[d].fileobj = "closed"
            /\ downloads'[d].pc \in {"L158", "raised"}
            /\ UNCHANGED <<coord, hist>>]_vars
    /\ [][Fires => \A d \in Ids : Handed(d) => downloads[d].fileobj = "closed"]_vars

\* Download d has been removed from the in-flight list by line 148.
Resolved(d) == downloads[d].pc \notin {"downloading", "L148"}

\* How often download d occurs in the in-flight list.
Occurrences(d) == Cardinality({k \in 1..Len(_in_progress) : _in_progress[k] = d})

\* C14: a download is in the in-flight list once until line 148 removes it
\* and never after, so a second resolution finds it absent; the step in which
\* list.remove raises for an absent download changes neither the list, the
\* counter nor a flag, and invokes no callback.
C14_DuplicateFails ==
    /\ [](\A d \in Ids : Occurrences(d) = IF Resolved(d) THEN 0 ELSE 1)
    /\ [][exc' = "remove" => NothingButRaise]_vars

C14_Witness ==
    /\ exc = "remove"
    /\ pc = "returned"
    /\ _in_progress # <<>>
    /\ \E d \in Ids : downloads[d].pc = "done" /\ downloads[d].successful
    /\ _done_count = 1
    /\ Len(single_calls) = 1
    /\ ~Fired

\* C15: the counter never exceeds the number of downloads appended to the
\* in-flight list so far, and no step lowers it.
C15_CounterBoundedMonotone ==
    /\ [](_done_count <= Len(downloads))
    /\ [][_done_count' >= _done_count]_vars

\* The local-file operations: the FakeDownloads created at line 138.
LocalOps == {d \in Ids : ~downloads[d].remote}

\* The file:// urls the loop of line 91 has reached so far.
LocalUrlsReached ==
    {i \in 1..Len(_urls) : i <= url_i /\ _urls[i] = "file"}

\* C16: _import_local is attempted once for every file entry a directory
\* listing yields and once for every file:// url that is not a directory,
\* and for nothing else; every attempt that opens its file creates one
\* local-file operation; a subdirectory entry creates nothing.
C16_OnePerFileEntry ==
    /\ [](fs.opened + fs.failed = fs.files + fs.plain)
    /\ [](Cardinality(LocalOps) = fs.opened)
    /\ [](fs.plain <= Cardinality(LocalUrlsReached))
    /\ [][fs'.subdirs # fs.subdirs =>
            /\ fs' = [fs EXCEPT !.subdirs = @ + 1]
            /\ UNCHANGED <<coord, downloads, errors, all_calls, single_calls>>]_vars
    /\ [][fs'.files # fs.files =>
            /\ fs'.files = fs.files + 1
            /\ fs'.plain = fs.plain
            /\ fs'.opened + fs'.failed = fs.opened + fs.failed + 1]_vars
    /\ [][fs'.plain # fs.plain =>
            /\ fs'.plain = fs.plain + 1
            /\ fs'.files = fs.files
            /\ pc = "L91" /\ _urls[url_i] = "file"
            /\ fs'.opened + fs'.failed = fs.opened + fs.failed + 1]_vars

C16_Witness ==
    /\ Len(_urls) = 1
    /\ pc = "returned"
    /\ fs.files = 1
    /\ fs.subdirs = 1
    /\ fs.plain = 0
    /\ Cardinality(LocalOps) = 1
    /\ Len(single_calls) = 1

\* This step enters the per-item callback of download d (line 155).
DeliversTo(d) == downloads[d].pc = "L155" /\ downloads'[d].pc = "cb"

\* _on_download_finished(d) has not ended yet for the created download d.
Unfinished(d) == downloads[d].pc \notin {"done", "raised"}

\* C17: the per-item callbacks are invoked in the order in which the
\* successful downloads were resolved: when the callback of a download is
\* entered, no download that was resolved as successful before it is still
\* waiting for its own; and a local file is resolved inline, inside the
\* dispatch of its source, before anything else is dispatched.
C17_CompletionOrder ==
    /\ [][\A d \in Ids : DeliversTo(d) => downloads[d].ahead = {}]_vars
    /\ [](\A d \in LocalOps : Unfinished(d) => pc = "L140" /\ d = Len(downloads))

\* The downloads whose counter increment is done and whose per-item callback
\* is about to be entered.
AboutToDeliver == {d \in Ids : downloads[d].pc = "L155"}

\* C18: under serialized execution the counter equals the number of per-item
\* callback invocations begun so far, plus one between the increment of line
\* 150 and the call of line 155 that follows it; an invocation that raised is
\* counted like one that returned; and every count passed to the all-done
\* callback equals the number of per-item invocations, then and ever after.
C18_SerialCount ==
    /\ Cardinality(AboutToDeliver) <= 1
    /\ _done_count = Len(single_calls) + Cardinality(AboutToDeliver)
    /\ Idle => _done_count = Len(single_calls)
    /\ \A k \in 1..Len(all_calls) : all_calls[k].count = Len(single_calls)

C18_Witness ==
    /\ Idle
    /\ Len(downloads) = 2
    /\ downloads[1].pc = "raised" /\ downloads[1].fileobj = "closed"
    /\ downloads[2].pc = "done" /\ downloads[2].fileobj = "closed"
    /\ Len(single_calls) = 2
    /\ all_calls = <<[count |-> 2, site |-> "L160"]>>

\* The inline resolution of a local file has ended with an exception.
LocalRaised == \E d \in LocalOps : downloads[d].pc = "raised"

\* C19: when the inline resolution of a local file raises, initiate() has
\* ended with that exception at the source it was dispatching, with the
\* registration flag unset and the all-done callback not invoked; this stays
\* so whatever happens later: the owner does not enter initiate() again (a
\* further call only raises) and no step invokes the all-done callback.
C19_LocalRaiseNeverFires ==
    /\ [](LocalRaised =>
            /\ pc = "raised"
            /\ _started
            /\ url_i <= Len(_urls)
            /\ ~_finished_registering_downloads
            /\ ~_finished
            /\ ~Fired)
    /\ [][LocalRaised => /\ FurtherCallOnlyRaises
                          /\ ~Fires
                          /\ LocalRaised']_vars

C19_Witness ==
    /\ LocalRaised
    /\ pc = "raised"
    /\ _in_progress = <<>>
    /\ \E d \in Ids : /\ downloads[d].remote
                       /\ downloads[d].successful
                       /\ downloads[d].pc = "done"
    /\ ~Fired

\* C20: _finished is true exactly when the all-done callback has been
\* invoked, _finished implies _started, and _finished never goes back to false.
C20_FinishedIffFired ==
    /\ [](Idle => (_finished <=> Fired))
    /\ [](_finished => _started)
    /\ [][_finished => _finished']_vars

====
